---- MODULE Spec2Model ----
(***************************************************************************)
(* Model of the GdkPixbuf VTF image loader (io-vtf.c): the loading         *)
(* context fed by load_increment, the header read by stop_load, the        *)
(* mip/frame address calculator, the per-format pixel decoders and the     *)
(* assembly of the decoded frames into an animation.                       *)
(*                                                                         *)
(* Conventions.  Buffer indices are the C indices (0-based); a buffer is a *)
(* sequence whose element k+1 is byte k.  `uint' arithmetic is taken       *)
(* modulo 2^32, uint16_t modulo 2^16, and a uint converted to `int' wraps  *)
(* in two's complement.  The host is little-endian and lays structs out    *)
(* with natural alignment (the source has no packing pragma).              *)
(***************************************************************************)
EXTENDS Integers, Sequences, FiniteSets, TLC

VARIABLES
    pc,         \* position of the client/loader: see Init and the actions
    file,       \* the bytes the client is going to deliver (environment input)
    fed,        \* sizes of the chunks of `file' given to load_increment so far
    context,    \* VtfContext: buffer, buffer_size, buffer_data_size (or freed)
    header,     \* VtfHeader local of stop_load (NoHeader before the memcpy)
    base,       \* stop_load's `base' (uint)
    fulldata,   \* stop_load's `fulldata' (uint)
    i,          \* stop_load's loop counter
    anim,       \* frames held by the GdkPixbufSimpleAnim, in order
    animRefs,   \* reference count the loader holds on anim (0: none / unref'd)
    events,     \* history: decode / append / prepared events, in program order
    reads,      \* history: per decoded frame, the buffer indices read, in order
    writes,     \* history: per decoded frame, the pixel indices written, in order
    error,      \* the GError set through `error' ("none" when unset)
    retval,     \* stop_load's return value ("none" until it returns)
    calc        \* scratch of the address-calculator and chunk-size specifications

vars == << pc, file, fed, context, header, base, fulldata, i, anim, animRefs,
           events, reads, writes, error, retval, calc >>

-----------------------------------------------------------------------------
(* Bounds of the model *)

MaxFrames == 3          \* header.frames ranges over 0..MaxFrames
MaxMip == 2             \* header.mipmapCount ranges over 0..MaxMip
MaxSeed == 1            \* payload patterns 0..MaxSeed
MaxThumb == 1           \* thumbnails of 0..MaxThumb DXT1 blocks before the region
MaxIncrements == 2      \* load_increment calls per load

-----------------------------------------------------------------------------
(* Machine arithmetic.  TLC's integers are 32-bit signed, so a C `uint' is  *)
(* kept as its two 16-bit halves <<hi, lo>> and the operations below are    *)
(* the operations modulo 2^32.                                              *)

Pow2(n) == 2 ^ n

U16(x) == x % 65536

U8(x) == x % 256

\* the uint with value n, for 0 <= n < 2^31
U32(n) == << n \div 65536, n % 65536 >>

U32Add(x, y) ==
    LET lo == x[2] + y[2]
    IN  << (x[1] + y[1] + lo \div 65536) % 65536, lo % 65536 >>

U32Sub(x, y) ==
    LET lo     == x[2] - y[2]
        borrow == IF lo < 0 THEN 1 ELSE 0
    IN  << (x[1] - y[1] - borrow + 131072) % 65536, (lo + 65536) % 65536 >>

\* a * b modulo 2^32 for 16-bit a and b, through 8-bit partial products
Mul16(a, b) ==
    LET t   == (a \div 256) * b
        low == (t % 256) * 256 + (a % 256) * b
    IN  << (t \div 256 + low \div 65536) % 65536, low % 65536 >>

\* x * k modulo 2^32 for a uint x and a multiplier k < 2^16
U32Mul(x, k) ==
    LET p == Mul16(x[2], k)
        q == Mul16(x[1], k)
    IN  << (p[1] + q[2]) % 65536, p[2] >>

U32Less(x, y) == (x[1] < y[1]) \/ (x[1] = y[1] /\ x[2] < y[2])

U32LessEq(x, y) == x = y \/ U32Less(x, y)

\* uint -> int conversion (two's complement wrap)
U32ToInt(x) ==
    IF x[1] >= 32768 THEN (x[1] - 65536) * 65536 + x[2] ELSE x[1] * 65536 + x[2]

RECURSIVE BitOr(_, _)
BitOr(a, b) ==
    IF a = 0 THEN b
    ELSE IF b = 0 THEN a
    ELSE (IF (a % 2 = 1) \/ (b % 2 = 1) THEN 1 ELSE 0) + 2 * BitOr(a \div 2, b \div 2)

BitAnd(a, mask) == a % (mask + 1)       \* mask is 2^k - 1 everywhere in the source

Shl(a, n) == a * Pow2(n)

Shr(a, n) == a \div Pow2(n)

\* x >> n on a 32-bit operand below 2^16.  A count of 32 or more is undefined
\* in C; the builds either mask the count to five bits (x86) or shift
\* everything out (ARM).
ShiftModes == {"mask", "zero"}

Shr32(x, n, mode) ==
    IF n < 32 THEN (IF n < 16 THEN Shr(x, n) ELSE 0)
    ELSE IF mode = "mask" THEN (IF n % 32 < 16 THEN Shr(x, n % 32) ELSE 0)
    ELSE 0

-----------------------------------------------------------------------------
(* enum of image formats *)

IMAGE_FORMAT_RGBA8888 == 0
IMAGE_FORMAT_ABGR8888 == 1
IMAGE_FORMAT_RGB888 == 2
IMAGE_FORMAT_BGR888 == 3
IMAGE_FORMAT_RGB565 == 4
IMAGE_FORMAT_I8 == 5
IMAGE_FORMAT_IA88 == 6
IMAGE_FORMAT_P8 == 7
IMAGE_FORMAT_A8 == 8
IMAGE_FORMAT_ARGB8888 == 11
IMAGE_FORMAT_BGRA8888 == 12
IMAGE_FORMAT_DXT1 == 13
IMAGE_FORMAT_DXT3 == 14
IMAGE_FORMAT_DXT5 == 15

\* the formats gdk_pixbuf__vtf_load_frame has a branch for
SupportedFormats ==
    { IMAGE_FORMAT_RGBA8888, IMAGE_FORMAT_ABGR8888, IMAGE_FORMAT_RGB888,
      IMAGE_FORMAT_BGR888, IMAGE_FORMAT_RGB565, IMAGE_FORMAT_I8,
      IMAGE_FORMAT_IA88, IMAGE_FORMAT_A8, IMAGE_FORMAT_DXT1,
      IMAGE_FORMAT_DXT5, IMAGE_FORMAT_ARGB8888, IMAGE_FORMAT_BGRA8888 }

-----------------------------------------------------------------------------
(* VtfHeader: the struct's fields in declaration order, element size, count *)

VtfHeaderFields ==
    << [name |-> "signature",          size |-> 1, count |-> 4],
       [name |-> "version",            size |-> 4, count |-> 2],
       [name |-> "headerSize",         size |-> 4, count |-> 1],
       [name |-> "width",              size |-> 2, count |-> 1],
       [name |-> "height",             size |-> 2, count |-> 1],
       [name |-> "flags",              size |-> 4, count |-> 1],
       [name |-> "frames",             size |-> 2, count |-> 1],
       [name |-> "firstFrame",         size |-> 2, count |-> 1],
       [name |-> "padding0",           size |-> 1, count |-> 4],
       [name |-> "reflectivity",       size |-> 4, count |-> 3],
       [name |-> "padding1",           size |-> 1, count |-> 4],
       [name |-> "bumpmapScale",       size |-> 4, count |-> 1],
       [name |-> "highResImageFormat", size |-> 4, count |-> 1],
       [name |-> "mipmapCount",        size |-> 1, count |-> 1],
       [name |-> "lowResImageFormat",  size |-> 4, count |-> 1],
       [name |-> "lowResImageWidth",   size |-> 1, count |-> 1],
       [name |-> "lowResImageHeight",  size |-> 1, count |-> 1],
       [name |-> "depth",              size |-> 2, count |-> 1] >>

FieldIndex(name) ==
    CHOOSE k \in 1..Len(VtfHeaderFields) : VtfHeaderFields[k].name = name

FieldBytes(k) == VtfHeaderFields[k].size * VtfHeaderFields[k].count

AlignUp(x, a) == ((x + a - 1) \div a) * a

\* alignment the compiler gives a scalar of `size' bytes: its own size
FieldAlign(size) == size

\* offset of the k-th member as the compiler lays the struct out
RECURSIVE StructOffset(_)
StructOffset(k) ==
    IF k = 1 THEN 0
    ELSE AlignUp(StructOffset(k - 1) + FieldBytes(k - 1),
                 FieldAlign(VtfHeaderFields[k].size))

\* sizeof(VtfHeader): the end of the last member rounded up to the widest alignment
SizeofHeader ==
    LET n == Len(VtfHeaderFields) IN AlignUp(StructOffset(n) + FieldBytes(n), FieldAlign(4))

OffsetOf(name) == StructOffset(FieldIndex(name))

-----------------------------------------------------------------------------
(* MipAddressCalculator: vtf_mip_size and vtf_offset *)

Max1(x) == IF x < 1 THEN 1 ELSE x

\* bytes of one slice of a mip, by format (the switch of vtf_mip_size); 0 for
\* a format without a case
FormatBytes(format, mipWidth, mipHeight) ==
    CASE format \in { IMAGE_FORMAT_RGBA8888, IMAGE_FORMAT_ABGR8888,
                      IMAGE_FORMAT_ARGB8888, IMAGE_FORMAT_BGRA8888 } ->
            U32Mul(Mul16(mipWidth, mipHeight), 4)
      [] format \in { IMAGE_FORMAT_RGB888, IMAGE_FORMAT_BGR888 } ->
            U32Mul(Mul16(mipWidth, mipHeight), 3)
      [] format \in { IMAGE_FORMAT_RGB565, IMAGE_FORMAT_IA88 } ->
            U32Mul(Mul16(mipWidth, mipHeight), 2)
      [] format \in { IMAGE_FORMAT_I8, IMAGE_FORMAT_A8 } ->
            U32Mul(Mul16(mipWidth, mipHeight), 1)
      [] format = IMAGE_FORMAT_DXT1 ->
            U32Mul(Mul16((mipWidth + 3) \div 4, (mipHeight + 3) \div 4), 8)
      [] format = IMAGE_FORMAT_DXT5 ->
            U32Mul(Mul16((mipWidth + 3) \div 4, (mipHeight + 3) \div 4), 16)
      [] OTHER -> U32(0)

\* vtf_mip_size(header, mipLevel, depth); mipLevel is the shift count (a uint,
\* given here as its value or as 32 and more for any oversized count) and mode
\* says what an oversized shift does
vtf_mip_size(h, mipLevel, depth, mode) ==
    LET mipWidth  == Max1(Shr32(h.width, mipLevel, mode))
        mipHeight == Max1(Shr32(h.height, mipLevel, mode))
        mipDepth  == Max1(Shr32(depth, mipLevel, mode))
        bytes     == FormatBytes(h.highResImageFormat, mipWidth, mipHeight)
    IN  U32Mul(bytes, mipDepth)

\* (uint) mipLevel as a shift count.  -1 becomes 4294967295, which no TLC
\* integer holds; 64 + mipLevel is, like 2^32 + mipLevel, at least 32 and has
\* the same low five bits, and Shr32 looks at nothing else
AsShiftCount(mipLevel) == IF mipLevel < 0 THEN 64 + mipLevel ELSE mipLevel

\* the loop of vtf_offset: for (i = mipmapCount - 1; i > mipLevel; i--)
\* offset += vtf_mip_size(header, i, header->depth), from offset = 0.  The sum
\* over lo <= i <= hi is taken by halves (addition modulo 2^32 is associative
\* and commutative), which keeps the evaluation shallow for 255 mips.
RECURSIVE MipLoop(_, _, _, _)
MipLoop(h, lo, hi, mode) ==
    IF lo > hi THEN U32(0)
    ELSE IF lo = hi THEN vtf_mip_size(h, lo, h.depth, mode)
    ELSE LET mid == (lo + hi) \div 2
         IN  U32Add(MipLoop(h, mid + 1, hi, mode), MipLoop(h, lo, mid, mode))

\* vtf_offset(header, frame, face, slice, mipLevel)
vtf_offset(h, frame, face, slice, mipLevel, mode) ==
    LET facecount    == 1
        looped       == MipLoop(h, mipLevel + 1, h.mipmapCount - 1, mode)
        scaled       == U32Mul(looped, h.frames * facecount)
        volume_bytes == vtf_mip_size(h, AsShiftCount(mipLevel), h.depth, mode)
        slice_bytes  == vtf_mip_size(h, AsShiftCount(mipLevel), 1, mode)
        withFrame    == U32Add(scaled, U32Mul(volume_bytes, frame * facecount + face))
    IN  U32Add(withFrame, U32Mul(slice_bytes, slice))

-----------------------------------------------------------------------------
(* The loading context and the bytes stop_load sees *)

NoHeader == [none |-> TRUE]

FreedContext == [freed |-> TRUE]

InitialBufferSize == 1000000

\* values a byte of malloc'ed, never written memory may turn out to hold
GarbageBytes == {0, 205}

\* context->buffer[idx]: the byte delivered at idx or, outside the delivered
\* bytes, whatever the memory holds (g)
ReadByte(ctx, idx, g) ==
    IF 0 <= idx /\ idx < ctx.buffer_data_size THEN ctx.buffer[idx + 1] ELSE g

\* idx lies in the block g_malloc / g_realloc gave the buffer
InAllocation(ctx, idx) == 0 <= idx /\ idx < ctx.buffer_size

\* little-endian scalars of the struct the memcpy filled
Le16(ctx, off, g) == ReadByte(ctx, off, g) + 256 * ReadByte(ctx, off + 1, g)

Le32(ctx, off, g) == << Le16(ctx, off + 2, g), Le16(ctx, off, g) >>

\* memcpy(&header, context->buffer, sizeof(header)) followed by the member
\* reads: each member comes from its offset in the struct
ParseHeader(ctx, g) ==
    [ signature          |-> << ReadByte(ctx, OffsetOf("signature") + 0, g),
                                ReadByte(ctx, OffsetOf("signature") + 1, g),
                                ReadByte(ctx, OffsetOf("signature") + 2, g),
                                ReadByte(ctx, OffsetOf("signature") + 3, g) >>,
      version            |-> << Le32(ctx, OffsetOf("version"), g),
                                Le32(ctx, OffsetOf("version") + 4, g) >>,
      width              |-> Le16(ctx, OffsetOf("width"), g),
      height             |-> Le16(ctx, OffsetOf("height"), g),
      frames             |-> Le16(ctx, OffsetOf("frames"), g),
      highResImageFormat |-> Le32(ctx, OffsetOf("highResImageFormat"), g),
      mipmapCount        |-> ReadByte(ctx, OffsetOf("mipmapCount"), g),
      depth              |-> Le16(ctx, OffsetOf("depth"), g) ]

\* the format as the enumerator it equals; a value with high bits set equals none
FormatTag(w) == IF w[1] = 0 THEN w[2] ELSE 65536 + w[1]

\* the validation without its frames == 0 test
HeaderCorrupt_SignatureOnly(h) ==
    \/ h.signature[1] # 86
    \/ h.signature[2] # 84
    \/ h.signature[3] # 70
    \/ h.signature[4] # 0

\* signature[0] != 'V' || signature[1] != 'T' || signature[2] != 'F' ||
\* signature[3] != 0 || frames == 0
HeaderCorrupt(h) ==
    \/ h.signature[1] # 86
    \/ h.signature[2] # 84
    \/ h.signature[3] # 70
    \/ h.signature[4] # 0
    \/ h.frames = 0

\* version[0] * 256 + version[1] < 0x0702, in uint arithmetic
VersionBelow72(h) ==
    U32Less(U32Add(U32Mul(h.version[1], 256), h.version[2]), U32(1794))

\* the header handed to the address calculator: FormatTag for the format word
CalcHeader(h) == [h EXCEPT !.highResImageFormat = FormatTag(h.highResImageFormat)]

-----------------------------------------------------------------------------
(* PixelFormatDecoder: gdk_pixbuf__vtf_load_frame *)

Unwritten == -1     \* a pixel byte gdk_pixbuf_new allocated and nobody wrote

\* gdk_pixbuf_new: rows of width * channels bytes rounded up to a multiple of 4
Rowstride(width, channels) == ((width * channels + 3) \div 4) * 4

\* the decoding state: next buffer index, the pixel array, the loop counters
\* (n: iterations of the pixel or block loop done, k: texels of the block
\* done), and the history of the buffer indices read and the pixel indices
\* written
NewDecode(pos, stride, height) ==
    [ pos |-> pos,
      pixels |-> [x \in 0..(stride * height - 1) |-> Unwritten],
      n |-> 0,
      k |-> 0,
      rd |-> << >>,
      wr |-> << >> ]

\* pixels[idx] = v: a write inside the array lands, one outside it is a heap
\* overrun (recorded in wr, its effect on the array is none)
Store(st, idx, v) ==
    [ st EXCEPT !.pixels = IF idx \in DOMAIN st.pixels
                           THEN [st.pixels EXCEPT ![idx] = U8(v)]
                           ELSE st.pixels,
                !.wr = Append(st.wr, idx) ]

\* context->buffer[pos++]
Fetch(st) == [st EXCEPT !.pos = st.pos + 1, !.rd = Append(st.rd, st.pos)]

Cur(st, ctx, g) == ReadByte(ctx, st.pos, g)

RECURSIVE StoreAll(_, _, _, _)
StoreAll(st, at, chs, v) ==
    IF chs = << >> THEN st
    ELSE StoreAll(Store(st, at + Head(chs), v), at, Tail(chs), v)

\* The uncompressed formats, as the statements of one loop body in source
\* order: "copy" reads one byte and stores it to the listed channels, "const"
\* stores a constant to them.
CopyOp(chs) == [kind |-> "copy", chs |-> chs, v |-> 0]

ConstOp(v, chs) == [kind |-> "const", chs |-> chs, v |-> v]

OpsRGBA8888 == << CopyOp(<<0>>), CopyOp(<<1>>), CopyOp(<<2>>), CopyOp(<<3>>) >>

OpsABGR8888 == << CopyOp(<<3>>), CopyOp(<<2>>), CopyOp(<<1>>), CopyOp(<<0>>) >>

OpsRGB888 == << CopyOp(<<0>>), CopyOp(<<1>>), CopyOp(<<2>>) >>

OpsBGR888 == << CopyOp(<<2>>), CopyOp(<<1>>), CopyOp(<<0>>) >>

OpsI8 == << CopyOp(<<0, 1, 2>>) >>

OpsIA88 == << CopyOp(<<0, 1, 2>>), CopyOp(<<3>>) >>

OpsA8 == << ConstOp(255, <<0>>), ConstOp(255, <<1>>), ConstOp(255, <<2>>), CopyOp(<<3>>) >>

OpsARGB8888 == << CopyOp(<<1>>), CopyOp(<<2>>), CopyOp(<<3>>), CopyOp(<<0>>) >>

OpsBGRA8888 == << CopyOp(<<2>>), CopyOp(<<1>>), CopyOp(<<0>>), CopyOp(<<3>>) >>

PixelOps(format) ==
    CASE format = IMAGE_FORMAT_RGBA8888 -> OpsRGBA8888
      [] format = IMAGE_FORMAT_ABGR8888 -> OpsABGR8888
      [] format = IMAGE_FORMAT_RGB888   -> OpsRGB888
      [] format = IMAGE_FORMAT_BGR888   -> OpsBGR888
      [] format = IMAGE_FORMAT_I8       -> OpsI8
      [] format = IMAGE_FORMAT_IA88     -> OpsIA88
      [] format = IMAGE_FORMAT_A8       -> OpsA8
      [] format = IMAGE_FORMAT_ARGB8888 -> OpsARGB8888
      [] format = IMAGE_FORMAT_BGRA8888 -> OpsBGRA8888

\* has_alpha of the gdk_pixbuf_new call of each branch
HasAlpha(format) ==
    format \notin { IMAGE_FORMAT_RGB888, IMAGE_FORMAT_BGR888,
                    IMAGE_FORMAT_RGB565, IMAGE_FORMAT_I8 }

Channels(format) == IF HasAlpha(format) THEN 4 ELSE 3

RECURSIVE RunOps(_, _, _, _, _)
RunOps(ops, st, at, ctx, g) ==
    IF ops = << >> THEN st
    ELSE LET op == Head(ops)
             nx == IF op.kind = "copy"
                   THEN StoreAll(Fetch(st), at, op.chs, Cur(st, ctx, g))
                   ELSE StoreAll(st, at, op.chs, op.v)
         IN  RunOps(Tail(ops), nx, at, ctx, g)

\* 5- and 6-bit channel to 8 bits, in uint16_t: r = (r << 3) | (r >> 5)
Expand5(v) == U16(BitOr(Shl(v, 3), Shr(v, 5)))

Expand6(v) == U16(BitOr(Shl(v, 2), Shr(v, 6)))

Red565(c) == Expand5(BitAnd(Shr(c, 11), 31))

Green565(c) == Expand6(BitAnd(Shr(c, 5), 63))

Blue565(c) == Expand5(BitAnd(Shr(c, 0), 31))

\* uint16_t c = buffer[pos++]; c |= buffer[pos++] << 8;  (value and new state)
Fetch16(st, ctx, g) ==
    LET s1 == Fetch(st)
        s2 == Fetch(s1)
    IN  [ v |-> U16(BitOr(Cur(st, ctx, g), Shl(Cur(s1, ctx, g), 8))), st |-> s2 ]

\* loop body of the RGB565 branch
PixelRGB565(st, at, ctx, g) ==
    LET f  == Fetch16(st, ctx, g)
        s1 == Store(f.st, at + 0, Red565(f.v))
        s2 == Store(s1, at + 1, Green565(f.v))
    IN  Store(s2, at + 2, Blue565(f.v))

\* for (i = 0; i < height; i++) for (j = 0; j < width; j++) body, the pixel
\* (i, j) being number n = i * width + j of the iteration
RECURSIVE PixelLoop(_, _, _, _, _)
PixelLoop(h, st, stride, ctx, g) ==
    IF st.n >= h.width * h.height THEN st
    ELSE LET row == st.n \div h.width
             col == st.n % h.width
             at  == stride * row + Channels(h.highResImageFormat) * col
             nx  == IF h.highResImageFormat = IMAGE_FORMAT_RGB565
                    THEN PixelRGB565(st, at, ctx, g)
                    ELSE RunOps(PixelOps(h.highResImageFormat), st, at, ctx, g)
         IN  PixelLoop(h, [nx EXCEPT !.n = st.n + 1], stride, ctx, g)

-----------------------------------------------------------------------------
(* The block-compressed formats *)

\* A selector wider than TLC's integers is kept as 16-bit limbs, low limb first.
SelLow(sel, mask) == BitAnd(sel[1], mask)

\* sel >>= n, for n < 16
SelLimb(sel, k, n) ==
    Shr(sel[k], n) + (IF k < Len(sel) THEN (sel[k + 1] % Pow2(n)) * Pow2(16 - n) ELSE 0)

SelShr(sel, n) ==
    IF Len(sel) = 2
    THEN << SelLimb(sel, 1, n), SelLimb(sel, 2, n) >>
    ELSE << SelLimb(sel, 1, n), SelLimb(sel, 2, n), SelLimb(sel, 3, n) >>

\* sel = buffer[pos++]; sel |= buffer[pos++] << 8; ... for `bytes' bytes
\* (bytes is even); the limbs and the new state
RECURSIVE FetchSel(_, _, _, _, _)
FetchSel(st, bytes, ctx, g, acc) ==
    IF bytes = 0 THEN [v |-> acc, st |-> st]
    ELSE LET f == Fetch16(st, ctx, g)
         IN  FetchSel(f.st, bytes - 2, ctx, g, Append(acc, f.v))

\* the colour endpoints of a block expanded to 8 bits: entries 0 and 1 of r, g, b
Endpoints(c0, c1) ==
    [ r |-> << Red565(c0), Red565(c1) >>,
      g |-> << Green565(c0), Green565(c1) >>,
      b |-> << Blue565(c0), Blue565(c1) >> ]

\* entries 2 and 3 of the if (c0 > c1) branch: (4*x0 + 2*x1 + 3)/6, (2*x0 + 4*x1 + 3)/6
Thirds(x) ==
    << x[1], x[2], U16((4 * x[1] + 2 * x[2] + 3) \div 6), U16((2 * x[1] + 4 * x[2] + 3) \div 6) >>

\* entries 2 and 3 of the else branch: (x0 + x1 + 1)/2 and 0
HalfAndZero(x) == << x[1], x[2], U16((x[1] + x[2] + 1) \div 2), 0 >>

\* the DXT1 palette taking the opaque branch for c0 = c1 too
PaletteDXT1_GreaterEq(c0, c1) ==
    LET e == Endpoints(c0, c1)
    IN  IF c0 >= c1
        THEN [ r |-> Thirds(e.r), g |-> Thirds(e.g), b |-> Thirds(e.b),
               a |-> << 255, 255, 255, 255 >> ]
        ELSE [ r |-> HalfAndZero(e.r), g |-> HalfAndZero(e.g), b |-> HalfAndZero(e.b),
               a |-> << 255, 255, 255, 0 >> ]

\* r[], g[], b[], a[] of a DXT1 block
PaletteDXT1(c0, c1) ==
    LET e == Endpoints(c0, c1)
    IN  IF c0 > c1
        THEN [ r |-> Thirds(e.r), g |-> Thirds(e.g), b |-> Thirds(e.b),
               a |-> << 255, 255, 255, 255 >> ]
        ELSE [ r |-> HalfAndZero(e.r), g |-> HalfAndZero(e.g), b |-> HalfAndZero(e.b),
               a |-> << 255, 255, 255, 0 >> ]

\* r[], g[], b[] of the colour sub-block of a DXT5 block
PaletteDXT5(c0, c1) ==
    LET e == Endpoints(c0, c1)
    IN  [ r |-> Thirds(e.r), g |-> Thirds(e.g), b |-> Thirds(e.b) ]

\* the alpha palette taking the 7-step branch for a0 = a1 too
AlphaPalette_GreaterEq(a0, a1) ==
    IF a0 >= a1
    THEN << a0, a1,
            U16((12 * a0 + 2 * a1 + 7) \div 14), U16((10 * a0 + 4 * a1 + 7) \div 14),
            U16((8 * a0 + 6 * a1 + 7) \div 14),  U16((6 * a0 + 8 * a1 + 7) \div 14),
            U16((4 * a0 + 10 * a1 + 7) \div 14), U16((2 * a0 + 12 * a1 + 7) \div 14) >>
    ELSE << a0, a1,
            U16((8 * a0 + 2 * a1 + 5) \div 10), U16((6 * a0 + 4 * a1 + 5) \div 10),
            U16((4 * a0 + 6 * a1 + 5) \div 10), U16((2 * a0 + 8 * a1 + 5) \div 10),
            0, 255 >>

\* a[0..7] of the alpha sub-block of a DXT5 block
AlphaPalette(a0, a1) ==
    IF a0 > a1
    THEN << a0, a1,
            U16((12 * a0 + 2 * a1 + 7) \div 14), U16((10 * a0 + 4 * a1 + 7) \div 14),
            U16((8 * a0 + 6 * a1 + 7) \div 14),  U16((6 * a0 + 8 * a1 + 7) \div 14),
            U16((4 * a0 + 10 * a1 + 7) \div 14), U16((2 * a0 + 12 * a1 + 7) \div 14) >>
    ELSE << a0, a1,
            U16((8 * a0 + 2 * a1 + 5) \div 10), U16((6 * a0 + 4 * a1 + 5) \div 10),
            U16((4 * a0 + 6 * a1 + 5) \div 10), U16((2 * a0 + 8 * a1 + 5) \div 10),
            0, 255 >>

\* for (ii..) for (jj..) { pixels[stride*(i+ii) + 4*(j+jj) + c] = pal.c[sel & mask]
\* for each c of chs; sel >>= bits; } where texel (ii, jj) is number k = 4*ii + jj
\* and (bi, bj) are the source's (i, j)
RECURSIVE TexelLoop(_, _, _, _, _, _, _, _)
TexelLoop(st, bi, bj, stride, pal, chs, sel, bits) ==
    IF st.k >= 16 THEN [st EXCEPT !.k = 0]
    ELSE LET at  == stride * (bi + (st.k \div 4)) + 4 * (bj + (st.k % 4))
             ix  == SelLow(sel, Pow2(bits) - 1) + 1
             s0  == IF 0 \in chs THEN Store(st, at + 0, pal.r[ix]) ELSE st
             s1  == IF 1 \in chs THEN Store(s0, at + 1, pal.g[ix]) ELSE s0
             s2  == IF 2 \in chs THEN Store(s1, at + 2, pal.b[ix]) ELSE s1
             s3  == IF 3 \in chs THEN Store(s2, at + 3, pal.a[ix]) ELSE s2
         IN  TexelLoop([s3 EXCEPT !.k = st.k + 1], bi, bj, stride, pal, chs,
                       SelShr(sel, bits), bits)

\* body of the block loop of the DXT1 branch, for the block at row bi, column bj (the
\* source's i and j)
BlockDXT1(st, bi, bj, stride, ctx, g) ==
    LET c0  == Fetch16(st, ctx, g)
        c1  == Fetch16(c0.st, ctx, g)
        pal == PaletteDXT1(c0.v, c1.v)
        sel == FetchSel(c1.st, 4, ctx, g, << >>)
    IN  TexelLoop(sel.st, bi, bj, stride, pal, {0, 1, 2, 3}, sel.v, 2)

\* body of the block loop of the DXT5 branch: the alpha sub-block, then the
\* colour sub-block
BlockDXT5(st, bi, bj, stride, ctx, g) ==
    LET a0   == Cur(st, ctx, g)
        sA   == Fetch(st)
        a1   == Cur(sA, ctx, g)
        sB   == Fetch(sA)
        asel == FetchSel(sB, 6, ctx, g, << >>)
        sC   == TexelLoop(asel.st, bi, bj, stride, [a |-> AlphaPalette(a0, a1)],
                          {3}, asel.v, 3)
        c0   == Fetch16(sC, ctx, g)
        c1   == Fetch16(c0.st, ctx, g)
        pal  == PaletteDXT5(c0.v, c1.v)
        sel  == FetchSel(c1.st, 4, ctx, g, << >>)
    IN  TexelLoop(sel.st, bi, bj, stride, pal, {0, 1, 2}, sel.v, 2)

\* the block loop going down the columns first
RECURSIVE BlockLoop_ColumnMajor(_, _, _, _, _)
BlockLoop_ColumnMajor(h, st, stride, ctx, g) ==
    LET perRow == (h.width + 3) \div 4
        rows   == (h.height + 3) \div 4
    IN  IF st.n >= perRow * rows THEN st
        ELSE LET bi == 4 * (st.n % perRow)
                 bj == 4 * (st.n \div perRow)
                 nx == IF h.highResImageFormat = IMAGE_FORMAT_DXT1
                       THEN BlockDXT1(st, bi, bj, stride, ctx, g)
                       ELSE BlockDXT5(st, bi, bj, stride, ctx, g)
             IN  BlockLoop_ColumnMajor(h, [nx EXCEPT !.n = st.n + 1], stride, ctx, g)

\* for (i = 0; i < height; i += 4) for (j = 0; j < width; j += 4) body, the
\* block (bi, bj) being number n of the iteration
RECURSIVE BlockLoop(_, _, _, _, _)
BlockLoop(h, st, stride, ctx, g) ==
    LET perRow == (h.width + 3) \div 4
        rows   == (h.height + 3) \div 4
    IN  IF st.n >= perRow * rows THEN st
        ELSE LET bi == 4 * (st.n \div perRow)
                 bj == 4 * (st.n % perRow)
                 nx == IF h.highResImageFormat = IMAGE_FORMAT_DXT1
                       THEN BlockDXT1(st, bi, bj, stride, ctx, g)
                       ELSE BlockDXT5(st, bi, bj, stride, ctx, g)
             IN  BlockLoop(h, [nx EXCEPT !.n = st.n + 1], stride, ctx, g)

NullPixbuf == [width |-> 0, height |-> 0, has_alpha |-> FALSE, rowstride |-> 0,
               pixels |-> << >>]

\* gdk_pixbuf__vtf_load_frame(header, context, error, pos): the pixbuf (or
\* NULL), the error it sets, and the history of its reads and writes.
\* gdk_pixbuf_new gives NULL for a width or height of 0, and then no loop body
\* touches the pixels.
gdk_pixbuf__vtf_load_frame(h, ctx, pos, g) ==
    LET fmt == h.highResImageFormat IN
    IF fmt \notin SupportedFormats
    THEN [ null |-> TRUE, error |-> "CORRUPT_IMAGE: Can't read this yet.",
           pixbuf |-> NullPixbuf, rd |-> << >>, wr |-> << >>, size |-> 0 ]
    ELSE IF h.width = 0 \/ h.height = 0
    THEN [ null |-> TRUE, error |-> "none",
           pixbuf |-> NullPixbuf, rd |-> << >>, wr |-> << >>, size |-> 0 ]
    ELSE LET stride == Rowstride(h.width, Channels(fmt))
             st0    == NewDecode(pos, stride, h.height)
             st     == IF fmt \in { IMAGE_FORMAT_DXT1, IMAGE_FORMAT_DXT5 }
                       THEN BlockLoop(h, st0, stride, ctx, g)
                       ELSE PixelLoop(h, st0, stride, ctx, g)
         IN  [ null |-> FALSE,
               pixbuf |-> [ width |-> h.width, height |-> h.height,
                            has_alpha |-> HasAlpha(fmt), rowstride |-> stride,
                            pixels |-> st.pixels ],
               error |-> "none", rd |-> st.rd, wr |-> st.wr, size |-> stride * h.height ]

-----------------------------------------------------------------------------
(* The files the client delivers (the environment's inputs).  A VTF file    *)
(* stores the header members back to back in declaration order, pads the    *)
(* header to 80 bytes, and is followed by the thumbnail and then by the     *)
(* high-resolution region, smallest mip first, each mip holding all frames. *)

\* on-disk offset of the k-th header member: the widths before it, summed
RECURSIVE PackedOffset(_)
PackedOffset(k) == IF k = 1 THEN 0 ELSE PackedOffset(k - 1) + FieldBytes(k - 1)

DiskOffset(name) == PackedOffset(FieldIndex(name))

DiskHeaderSize == 80

\* the n bytes of the little-endian value v
LeBytes(v, n) == [k \in 1..n |-> (v \div Pow2(8 * (k - 1))) % 256]

Zeros(n) == [k \in 1..n |-> 0]

\* the 80 header bytes of a file: the members in declaration order, then the
\* padding; `tail' is what the two padding bytes at 66 and 67 hold
DiskHeader(f) ==
    f.sig                                                   \* signature
    \o LeBytes(7, 4) \o LeBytes(f.minor, 4)                 \* version
    \o LeBytes(DiskHeaderSize, 4)                           \* headerSize
    \o LeBytes(f.width, 2) \o LeBytes(f.height, 2)          \* width, height
    \o Zeros(4)                                             \* flags
    \o LeBytes(f.frames, 2) \o Zeros(2)                     \* frames, firstFrame
    \o Zeros(4) \o Zeros(12) \o Zeros(4)                    \* padding0, reflectivity, padding1
    \o Zeros(4)                                             \* bumpmapScale
    \o LeBytes(f.format, 4)                                 \* highResImageFormat
    \o << f.mips >>                                         \* mipmapCount
    \o LeBytes(IMAGE_FORMAT_DXT1, 4)                        \* lowResImageFormat
    \o << IF f.thumb > 0 THEN 4 ELSE 0, 4 * f.thumb >>      \* lowResImageWidth, Height
    \o LeBytes(f.depth, 2)                                  \* depth
    \o << 0 >> \o LeBytes(f.tail, 2) \o Zeros(12)           \* padding to 80 bytes

\* bytes a file stores for one slice of w x h pixels
DiskSliceBytes(format, w, h) ==
    CASE format \in { IMAGE_FORMAT_RGBA8888, IMAGE_FORMAT_ABGR8888,
                      IMAGE_FORMAT_ARGB8888, IMAGE_FORMAT_BGRA8888 } -> 4 * w * h
      [] format \in { IMAGE_FORMAT_RGB888, IMAGE_FORMAT_BGR888 } -> 3 * w * h
      [] format \in { IMAGE_FORMAT_RGB565, IMAGE_FORMAT_IA88 } -> 2 * w * h
      [] format = IMAGE_FORMAT_DXT1 -> 8 * ((w + 3) \div 4) * ((h + 3) \div 4)
      [] format \in { IMAGE_FORMAT_DXT3, IMAGE_FORMAT_DXT5 } ->
            16 * ((w + 3) \div 4) * ((h + 3) \div 4)
      [] OTHER -> w * h

\* a 16-bit dimension halved `level' times
Halved(x, level) == IF level >= 16 THEN 0 ELSE x \div Pow2(level)

RECURSIVE DiskRegionBytes(_, _)
DiskRegionBytes(f, level) ==
    IF level >= f.mips THEN 0
    ELSE f.frames * Max1(Halved(f.depth, level))
                  * DiskSliceBytes(f.format, Max1(Halved(f.width, level)),
                                   Max1(Halved(f.height, level)))
         + DiskRegionBytes(f, level + 1)

\* pixel data without structure: byte k of pattern `seed'
PatternBytes(seed, n) == [k \in 1..n |-> (seed * 101 + (k - 1) * 37 + 7) % 256]

FileOf(f, payload) ==
    DiskHeader(f) \o PatternBytes(3, 8 * f.thumb) \o payload

PatternFile(f, seed) == FileOf(f, PatternBytes(seed, DiskRegionBytes(f, 0)))

GoodSignature == << 86, 84, 70, 0 >>        \* 'V', 'T', 'F', 0

BadSignatures ==
    { << 118, 84, 70, 0 >>, << 86, 85, 70, 0 >>, << 86, 84, 71, 0 >>,
      << 86, 84, 70, 1 >>, << 0, 0, 0, 0 >> }

FileFormats == SupportedFormats \cup { IMAGE_FORMAT_P8, IMAGE_FORMAT_DXT3, 99 }

FileDims == { << 1, 1 >>, << 2, 2 >>, << 4, 4 >>, << 8, 4 >>, << 0, 4 >> }

BaseFile ==
    [ sig |-> GoodSignature, minor |-> 2, width |-> 4, height |-> 4, frames |-> 1,
      format |-> IMAGE_FORMAT_RGBA8888, mips |-> 1, depth |-> 1, tail |-> 0,
      thumb |-> 0 ]

\* every format at every size and frame count
FormatFiles ==
    { PatternFile([BaseFile EXCEPT !.format = fmt, !.width = d[1], !.height = d[2],
                                   !.frames = n], 0) :
        fmt \in FileFormats, d \in FileDims, n \in 0..MaxFrames }

\* mip counts, versions, depths (stored, and in the padding), thumbnails
LayoutFiles ==
    { PatternFile([BaseFile EXCEPT !.format = x[1], !.frames = 2, !.mips = x[2],
                                   !.minor = x[3], !.depth = x[4], !.tail = x[5],
                                   !.thumb = x[6]], 0) :
        x \in { IMAGE_FORMAT_RGB888, IMAGE_FORMAT_DXT1 }
              \X (0..MaxMip) \X {1, 2} \X {1, 2} \X {0, 2} \X (0..MaxThumb) }

\* other pixel data for the uncompressed formats
PixelFiles ==
    { PatternFile([BaseFile EXCEPT !.format = fmt, !.width = 2, !.height = 2], seed) :
        fmt \in SupportedFormats \ { IMAGE_FORMAT_DXT1, IMAGE_FORMAT_DXT5 },
        seed \in 1..MaxSeed }

BadSignatureFiles ==
    { PatternFile([BaseFile EXCEPT !.sig = sg, !.frames = n], 0) :
        sg \in BadSignatures, n \in 0..2 }

Bytes16(v) == << v % 256, v \div 256 >>

Colors565 == { 65535, 0, 4660, 63519 }      \* 0xFFFF, 0x0000, 0x1234, 0xF81F

Selectors32 ==
    { << 0, 0, 0, 0 >>, << 255, 255, 255, 255 >>, << 228, 27, 78, 177 >>,
      << 170, 85, 170, 85 >> }

\* single 4x4 DXT1 blocks
DXT1Files ==
    { FileOf([BaseFile EXCEPT !.format = IMAGE_FORMAT_DXT1],
             Bytes16(c0) \o Bytes16(c1) \o sel) :
        c0 \in Colors565, c1 \in Colors565, sel \in Selectors32 }

Alphas == { 255, 0, 100 }

Selectors48 ==
    { << 0, 0, 0, 0, 0, 0 >>, << 136, 198, 250, 136, 198, 250 >>,
      << 255, 255, 255, 255, 255, 255 >> }

\* single 4x4 DXT5 blocks
DXT5Files ==
    { FileOf([BaseFile EXCEPT !.format = IMAGE_FORMAT_DXT5],
             << a0, a1 >> \o asel \o Bytes16(c0) \o Bytes16(c1) \o sel) :
        a0 \in Alphas, a1 \in Alphas, asel \in Selectors48,
        c0 \in { 65535, 4660 }, c1 \in { 65535, 4660, 0 },
        sel \in { << 228, 27, 78, 177 >> } }

\* files that end before the pixel data their header announces
ShortFiles ==
    { FileOf([BaseFile EXCEPT !.width = 8, !.frames = n], PatternBytes(0, k)) :
        n \in 1..2, k \in { 0, 16 } }

\* block-compressed pictures of more than one row of blocks
BlockFiles ==
    { PatternFile([BaseFile EXCEPT !.format = fmt, !.width = d[1], !.height = d[2]], 0) :
        fmt \in { IMAGE_FORMAT_DXT1, IMAGE_FORMAT_DXT5 }, d \in { << 4, 8 >>, << 8, 8 >> } }

Files ==
    FormatFiles \cup LayoutFiles \cup PixelFiles \cup BadSignatureFiles
    \cup DXT1Files \cup DXT5Files \cup ShortFiles \cup BlockFiles

-----------------------------------------------------------------------------
(* The loader: begin_load, load_increment, stop_load *)

RECURSIVE SumSeq(_)
SumSeq(q) == IF q = << >> THEN 0 ELSE Head(q) + SumSeq(Tail(q))

Delivered == SumSeq(fed)

NoCalc == [none |-> TRUE]

Init ==
    /\ pc = "start"
    /\ file \in Files
    /\ fed = << >>
    /\ context = [none |-> TRUE]
    /\ header = NoHeader
    /\ base = U32(0)
    /\ fulldata = U32(0)
    /\ i = 0
    /\ anim = << >>
    /\ animRefs = 0
    /\ events = << >>
    /\ reads = << >>
    /\ writes = << >>
    /\ error = "none"
    /\ retval = "none"
    /\ calc = NoCalc

\* gdk_pixbuf__vtf_image_begin_load (g_malloc does not return NULL)
BeginLoad ==
    /\ pc = "start"
    /\ context' = [ buffer |-> << >>, buffer_size |-> InitialBufferSize,
                    buffer_data_size |-> 0 ]
    /\ pc' = "loading"
    /\ UNCHANGED << file, fed, header, base, fulldata, i, anim, animRefs, events,
                    reads, writes, error, retval, calc >>

\* while (buffer_data_size > buffer_size) buffer_size *= 2; in guint
\* arithmetic.  A buffer_size that has become 0 stays 0 and the loop never
\* ends: `hung'.
RECURSIVE GrowBuffer(_, _)
GrowBuffer(buffer_size, buffer_data_size) ==
    IF U32Less(buffer_size, buffer_data_size)
    THEN IF buffer_size = U32(0)
         THEN [ hung |-> TRUE, buffer_size |-> buffer_size ]
         ELSE GrowBuffer(U32Mul(buffer_size, 2), buffer_data_size)
    ELSE [ hung |-> FALSE, buffer_size |-> buffer_size ]

\* the sizes of load_increment for a chunk of `size' bytes (guint values):
\* buffer_data_size += size, the growth of buffer_size, and where the memcpy
\* puts the chunk: at buffer + buffer_data_size - size, which is before the
\* buffer when the addition wrapped
IncrementSizes(buffer_size, buffer_data_size, size) ==
    LET sum  == U32Add(buffer_data_size, size)
        grow == GrowBuffer(buffer_size, sum)
    IN  [ buffer_data_size |-> sum,
          buffer_size      |-> grow.buffer_size,
          hung             |-> grow.hung,
          at               |-> U32Sub(sum, size),
          before           |-> U32Less(sum, size) ]

\* the context after gdk_pixbuf__vtf_image_load_increment(context, data, size),
\* for the files of this model (sizes far below 2^31, so IncrementSizes
\* neither wraps nor hangs)
Incremented(ctx, data) ==
    LET sz == IncrementSizes(U32(ctx.buffer_size), U32(ctx.buffer_data_size), U32(Len(data)))
        at == U32ToInt(sz.at)
    IN  [ buffer_size      |-> U32ToInt(sz.buffer_size),
          buffer_data_size |-> U32ToInt(sz.buffer_data_size),
          buffer           |-> SubSeq(ctx.buffer, 1, at) \o data ]

\* the client hands over the next chunk of the file: all that is left, or half
LoadIncrement ==
    /\ pc = "loading"
    /\ Len(fed) < MaxIncrements
    /\ \E size \in { Len(file) - Delivered, (Len(file) - Delivered) \div 2 } \ {0} :
          /\ context' = Incremented(context, SubSeq(file, Delivered + 1, Delivered + size))
          /\ fed' = Append(fed, size)
    /\ UNCHANGED << pc, file, header, base, fulldata, i, anim, animRefs, events,
                    reads, writes, error, retval, calc >>

\* gdk_pixbuf__vtf_image_stop_load up to the frame loop: the memcpy of the
\* header, its validation, the depth of old versions, fulldata and base, the
\* new animation
StopLoadHeader ==
    /\ pc = "loading"
    /\ \E raw \in { ParseHeader(context, g) : g \in GarbageBytes } :
          IF HeaderCorrupt(raw)
          THEN /\ header' = CalcHeader(raw)
               /\ error' = "CORRUPT_IMAGE: File corrupt or incomplete"
               /\ retval' = FALSE
               /\ pc' = "end"
               /\ UNCHANGED << fulldata, base, animRefs >>
          ELSE /\ header' = CalcHeader(IF VersionBelow72(raw)
                                       THEN [raw EXCEPT !.depth = 1] ELSE raw)
               /\ \E fd \in { vtf_offset(header', 0, 0, 0, -1, mode) : mode \in ShiftModes } :
                     /\ fulldata' = fd
                     /\ base' = U32Sub(U32(context.buffer_data_size), fd)
               /\ animRefs' = 1
               /\ retval' = TRUE
               /\ pc' = "frames"
               /\ UNCHANGED error
    /\ UNCHANGED << file, fed, context, i, anim, events, reads, writes, calc >>

Event(ev, frame) == [ev |-> ev, frame |-> frame]

\* the loop body calling prepared_func for every frame
FrameEvents_PreparedEach(k) ==
    << Event("decode", k), Event("append", k), Event("prepared", k) >>

\* what the loop body does with a frame that loaded: add it to the animation
\* and, if (i == 0), call prepared_func with it
FrameEvents(k) ==
    << Event("decode", k), Event("append", k) >>
    \o (IF k = 0 THEN << Event("prepared", k) >> ELSE << >>)

\* a decode that read outside the allocated buffer or wrote outside the pixel
\* array may end the process
MayCrash(ctx, r) ==
    \/ \E k \in 1..Len(r.rd) : ~InAllocation(ctx, r.rd[k])
    \/ \E k \in 1..Len(r.wr) : r.wr[k] < 0 \/ r.wr[k] >= r.size

\* every read of the decode hit a delivered byte
ReadsInData(ctx, r) ==
    \A k \in 1..Len(r.rd) : 0 <= r.rd[k] /\ r.rd[k] < ctx.buffer_data_size

\* what load_frame can return: one result when it reads delivered bytes only,
\* else one for each value the other memory may hold
LoadFrameOutcomes(h, ctx, pos) ==
    LET r0 == gdk_pixbuf__vtf_load_frame(h, ctx, pos, CHOOSE g \in GarbageBytes : TRUE)
    IN  IF ReadsInData(ctx, r0)
        THEN { r0 }
        ELSE { gdk_pixbuf__vtf_load_frame(h, ctx, pos, g) : g \in GarbageBytes }

\* one iteration of the frame loop of stop_load: load the frame at
\* base + vtf_offset(header, i, 0, 0, 0); on NULL drop the animation and leave,
\* else add the frame and, for frame 0, call prepared_func
StopLoadFrame ==
    /\ pc = "frames"
    /\ i < header.frames
    /\ \E pos \in { U32ToInt(U32Add(base, vtf_offset(header, i, 0, 0, 0, mode))) :
                        mode \in ShiftModes } :
        \E r \in LoadFrameOutcomes(header, context, pos) :
        \E crash \in (IF MayCrash(context, r) THEN BOOLEAN ELSE {FALSE}) :
              /\ reads' = Append(reads, r.rd)
              /\ writes' = Append(writes, r.wr)
              /\ IF crash
                 THEN /\ pc' = "crashed"
                      /\ events' = Append(events, Event("decode", i))
                      /\ UNCHANGED << i, anim, animRefs, error >>
                 ELSE IF r.null
                 THEN /\ events' = Append(events, Event("decode", i))
                      /\ error' = IF r.error = "none" THEN error ELSE r.error
                      /\ anim' = << >>
                      /\ animRefs' = 0
                      /\ pc' = "end"
                      /\ UNCHANGED i
                 ELSE /\ anim' = Append(anim, [index |-> i, pixbuf |-> r.pixbuf])
                      /\ events' = events \o FrameEvents(i)
                      /\ i' = i + 1
                      /\ pc' = IF i + 1 < header.frames THEN "frames" ELSE "end"
                      /\ UNCHANGED << animRefs, error >>
    /\ UNCHANGED << file, fed, context, header, base, fulldata, retval, calc >>

\* end: g_free(context->buffer); g_free(context); return retval;
StopLoadEnd ==
    /\ pc = "end"
    /\ context' = FreedContext
    /\ pc' = "done"
    /\ UNCHANGED << file, fed, header, base, fulldata, i, anim, animRefs, events,
                    reads, writes, error, retval, calc >>

Next == BeginLoad \/ LoadIncrement \/ StopLoadHeader \/ StopLoadFrame \/ StopLoadEnd

Spec == Init /\ [][Next]_vars

-----------------------------------------------------------------------------
(* The address calculator on its own: headers of any size, offsets of the    *)
(* mip levels from the smallest down to -1.                                 *)

MaxCalcMip == 3         \* mipmapCount ranges over 1..MaxCalcMip here

CalcDims == { 1, 4, 1024, 16384, 32768, 65535 }

CalcDepths == { 0, 1, 4 }

CalcFrames == { 1, 2, 5 }

CalcHeaders ==
    { [ width |-> w, height |-> ht, depth |-> d, frames |-> n, mipmapCount |-> m,
        highResImageFormat |-> fmt ] :
        w \in CalcDims, ht \in CalcDims, d \in CalcDepths, n \in CalcFrames,
        m \in 1..MaxCalcMip, fmt \in SupportedFormats }

CalcInit ==
    /\ pc = "calc"
    /\ calc \in { [ h |-> hh, mode |-> mode, level |-> hh.mipmapCount - 1, offs |-> << >> ] :
                    hh \in CalcHeaders, mode \in ShiftModes }
    /\ file = << >>
    /\ fed = << >>
    /\ context = [none |-> TRUE]
    /\ header = NoHeader
    /\ base = U32(0)
    /\ fulldata = U32(0)
    /\ i = 0
    /\ anim = << >>
    /\ animRefs = 0
    /\ events = << >>
    /\ reads = << >>
    /\ writes = << >>
    /\ error = "none"
    /\ retval = "none"

\* vtf_offset(header, 0, 0, 0, level) for the next level down
CalcOffset ==
    /\ pc = "calc"
    /\ calc.level >= -1
    /\ calc' = [ calc EXCEPT
                   !.offs = Append(@, vtf_offset(calc.h, 0, 0, 0, calc.level, calc.mode)),
                   !.level = @ - 1 ]
    /\ UNCHANGED << pc, file, fed, context, header, base, fulldata, i, anim, animRefs,
                    events, reads, writes, error, retval >>

CalcNext == CalcOffset

CalcSpec == CalcInit /\ [][CalcNext]_vars

-----------------------------------------------------------------------------
(* begin_load and load_increment on their own, for chunks of any guint      *)
(* size.  Only the sizes are kept: the context's two counters and, for each *)
(* chunk, its size and where the memcpy put it.                             *)

MaxChunks == 3          \* load_increment calls per load here

\* 1, 80, 1000000, 1000001, 3000000000, 4096000000, 4096000001
ChunkSizes ==
    { U32(1), U32(80), U32(InitialBufferSize), U32(InitialBufferSize + 1),
      U32Mul(U32(InitialBufferSize), 3000), U32Mul(U32(InitialBufferSize), 4096),
      U32Add(U32Mul(U32(InitialBufferSize), 4096), U32(1)) }

SizeInit ==
    /\ pc = "sizes_start"
    /\ calc = NoCalc
    /\ file = << >>
    /\ fed = << >>
    /\ context = [none |-> TRUE]
    /\ header = NoHeader
    /\ base = U32(0)
    /\ fulldata = U32(0)
    /\ i = 0
    /\ anim = << >>
    /\ animRefs = 0
    /\ events = << >>
    /\ reads = << >>
    /\ writes = << >>
    /\ error = "none"
    /\ retval = "none"

\* gdk_pixbuf__vtf_image_begin_load: buffer_size = 1000000, buffer_data_size = 0
SizeBeginLoad ==
    /\ pc = "sizes_start"
    /\ calc' = [ buffer_size |-> U32(InitialBufferSize), buffer_data_size |-> U32(0),
                 chunks |-> << >> ]
    /\ pc' = "sizes"
    /\ UNCHANGED << file, fed, context, header, base, fulldata, i, anim, animRefs,
                    events, reads, writes, error, retval >>

\* gdk_pixbuf__vtf_image_load_increment with a chunk of `size' bytes: it hangs
\* in the growth loop, or copies the chunk; a copy to before the buffer may
\* end the process
SizeIncrement ==
    /\ pc = "sizes"
    /\ Len(calc.chunks) < MaxChunks
    /\ \E size \in ChunkSizes :
        \E sz \in { IncrementSizes(calc.buffer_size, calc.buffer_data_size, size) } :
          IF sz.hung
          THEN /\ calc' = [ calc EXCEPT !.buffer_size = sz.buffer_size,
                                        !.buffer_data_size = sz.buffer_data_size ]
               /\ pc' = "hung"
          ELSE /\ calc' = [ buffer_size |-> sz.buffer_size,
                            buffer_data_size |-> sz.buffer_data_size,
                            chunks |-> Append(calc.chunks,
                                              [ size |-> size, at |-> sz.at,
                                                before |-> sz.before ]) ]
               /\ pc' \in (IF sz.before THEN { "sizes", "crashed" } ELSE { "sizes" })
    /\ UNCHANGED << file, fed, context, header, base, fulldata, i, anim, animRefs,
                    events, reads, writes, error, retval >>

SizeNext == SizeBeginLoad \/ SizeIncrement

SizeSpec == SizeInit /\ [][SizeNext]_vars

-----------------------------------------------------------------------------
(* Properties of the loader *)

\* byte k of what the client delivered before stop_load
InputByte(k) == file[k + 1]

InputLe16(off) == InputByte(off) + 256 * InputByte(off + 1)

InputSignature == << InputByte(0), InputByte(1), InputByte(2), InputByte(3) >>

\* the whole file reached the buffer, header included
WholeFileDelivered == Delivered = Len(file) /\ Len(file) >= DiskHeaderSize

\* the format number the delivered header stores, when it fits 16 bits
InputFormatSupported ==
    /\ InputLe16(DiskOffset("highResImageFormat")) \in SupportedFormats
    /\ InputLe16(DiskOffset("highResImageFormat") + 2) = 0

\* C1: stop_load checks the addressed region against the buffer before any
\* frame is read, so no decode ever reads a buffer index outside
\* [0, buffer_data_size): every index in the read history of every frame is
\* one of the delivered bytes.
C1_ReadsWithinBuffer ==
    \A f \in 1..Len(reads) :
        \A k \in 1..Len(reads[f]) : 0 <= reads[f][k] /\ reads[f][k] < Delivered

\* a delivered header with a valid signature, at least one frame, and a
\* format number outside the supported set
UnsupportedInput ==
    /\ WholeFileDelivered
    /\ InputSignature = GoodSignature
    /\ InputLe16(DiskOffset("frames")) >= 1
    /\ ~InputFormatSupported

\* C2: for a header with valid signature, frames >= 1 and an unsupported
\* format, stop_load returns FALSE with the unsupported-format error set,
\* leaves zero frames and never calls the prepared callback.
C2_UnsupportedFormatFails ==
    (pc = "done" /\ UnsupportedInput) =>
        /\ retval = FALSE
        /\ error = "CORRUPT_IMAGE: Can't read this yet."
        /\ anim = << >>
        /\ \A k \in 1..Len(events) : events[k].ev # "prepared"

\* the first four delivered bytes are not 'V','T','F',0, or the frames field
\* of the delivered header is 0
CorruptInput ==
    \/ Delivered >= 4 /\ InputSignature # GoodSignature
    \/ /\ Delivered >= DiskOffset("frames") + 2
       /\ InputLe16(DiskOffset("frames")) = 0

\* C3: when the signature is wrong or the frames field is 0, stop_load sets
\* the corrupt-container error and returns FALSE, calls no callback, decodes
\* no frame, and still releases the buffer and the context.
C3_CorruptContainerFails ==
    CorruptInput =>
        /\ pc \notin { "frames", "crashed" }
        /\ pc \in { "end", "done" } =>
              /\ retval = FALSE
              /\ error = "CORRUPT_IMAGE: File corrupt or incomplete"
              /\ events = << >>
              /\ reads = << >>
              /\ anim = << >>
        /\ pc = "done" => context = FreedContext

\* a load of a file with a good signature and frames = 0 has returned
C3_Witness ==
    /\ pc = "done"
    /\ Delivered >= DiskHeaderSize
    /\ InputSignature = GoodSignature
    /\ InputLe16(DiskOffset("frames")) = 0
    /\ retval = FALSE

\* the events of decoding frames 0..n-1 in order: decode and append of each,
\* the prepared callback after the append of frame 0
RECURSIVE ExpectedEvents(_)
ExpectedEvents(n) ==
    IF n = 0 THEN << >>
    ELSE ExpectedEvents(n - 1)
         \o << Event("decode", n - 1), Event("append", n - 1) >>
         \o (IF n = 1 THEN << Event("prepared", 0) >> ELSE << >>)

\* the loader got through the header checks with a format it decodes and a
\* picture that is not empty
DecodableHeader ==
    /\ pc \in { "frames", "end", "done" }
    /\ retval = TRUE
    /\ header.highResImageFormat \in SupportedFormats
    /\ header.width >= 1
    /\ header.height >= 1

\* C4: the frames are decoded strictly in order 0..N-1 and appended in that
\* order; the prepared callback fires exactly once, for frame 0, after
\* frame 0 is appended and before frame 1 is decoded; the finished animation
\* holds exactly N frames.
C4_FramesInOrder ==
    DecodableHeader =>
        /\ events = ExpectedEvents(i)
        /\ Len(anim) = i
        /\ \A k \in 1..Len(anim) : anim[k].index = k - 1
        /\ Cardinality({ k \in 1..Len(events) : events[k].ev = "prepared" })
              = (IF i >= 1 THEN 1 ELSE 0)
        /\ pc \in { "end", "done" } => i = header.frames

\* a whole file of MaxFrames frames has been loaded to the end
C4_Witness ==
    /\ pc = "done"
    /\ DecodableHeader
    /\ WholeFileDelivered
    /\ header.frames = MaxFrames
    /\ Len(anim) = MaxFrames
    /\ \A f \in 1..Len(reads) : \A k \in 1..Len(reads[f]) :
          0 <= reads[f][k] /\ reads[f][k] < Delivered

-----------------------------------------------------------------------------
(* Properties of the address calculator (under CalcSpec) *)

\* all levels, -1 included, have their offset
CalcDone == calc # NoCalc /\ calc.level = -2

\* offset of level L once computed: levels go mipmapCount-1, ..., 0, -1
CalcOffsetOf(L) == calc.offs[calc.h.mipmapCount - L]

\* C5: vtf_offset(h,0,0,0,-1) is frames times the sum over the mip levels of
\* vtf_mip_size(h,i,depth), and is offset(0,0,0,0) plus frames times
\* vtf_mip_size(h,0,depth); and as L goes down from mipmapCount-1 to -1,
\* vtf_offset(h,0,0,0,L) never decreases; both in the code's 32-bit
\* arithmetic, for any 16-bit width and height.
C5_OffsetsTotalAndMonotone ==
    calc # NoCalc =>
        /\ \A k \in 1..(Len(calc.offs) - 1) : U32LessEq(calc.offs[k], calc.offs[k + 1])
        /\ CalcDone =>
              /\ CalcOffsetOf(-1)
                   = U32Mul(MipLoop(calc.h, 0, calc.h.mipmapCount - 1, calc.mode),
                            calc.h.frames)
              /\ CalcOffsetOf(-1)
                   = U32Add(CalcOffsetOf(0),
                            U32Mul(vtf_mip_size(calc.h, 0, calc.h.depth, calc.mode),
                                   calc.h.frames))

-----------------------------------------------------------------------------
(* Properties of the pixel decoders.  Frame f (counted from 1) of the       *)
(* animation came from the bytes at FramePos(f) onwards.                    *)

FramePos(f) == reads[f][1]

\* the decode of frame f read delivered bytes only
FrameInData(f) ==
    \A k \in 1..Len(reads[f]) : 0 <= reads[f][k] /\ reads[f][k] < Delivered

SourceByte(f, k) == InputByte(FramePos(f) + k)

SourceLe16(f, k) == SourceByte(f, k) + 256 * SourceByte(f, k + 1)

\* the four output bytes at pixel index `at' of frame f
Rgba(f, at) ==
    LET px == anim[f].pixbuf.pixels
    IN  << px[at], px[at + 1], px[at + 2], px[at + 3] >>

\* C6: for ARGB8888, the four input bytes of every pixel (x,y) are A,R,G,B:
\* the first goes to output index 3, the second to index 0, the third to
\* index 1, the fourth to index 2 of the pixel at stride*y + 4*x.
C6_ARGB8888ChannelOrder ==
    \A f \in 1..Len(anim) :
        (header.highResImageFormat = IMAGE_FORMAT_ARGB8888 /\ FrameInData(f)) =>
            \A y \in 0..(header.height - 1) : \A x \in 0..(header.width - 1) :
                LET n  == y * header.width + x
                    at == anim[f].pixbuf.rowstride * y + 4 * x
                IN  Rgba(f, at) = << SourceByte(f, 4 * n + 1), SourceByte(f, 4 * n + 2),
                                     SourceByte(f, 4 * n + 3), SourceByte(f, 4 * n + 0) >>

\* frame f is a picture of whole 4x4 blocks in the given format, decoded from
\* delivered bytes
BlockFrame(f, format) ==
    /\ header.highResImageFormat = format
    /\ header.width % 4 = 0
    /\ header.height % 4 = 0
    /\ FrameInData(f)

BlocksOf(f) == 0..((header.width \div 4) * (header.height \div 4) - 1)

\* pixel index of texel k (row-major) of block b (row-major) of frame f
TexelAt(f, b, k) ==
    LET bi == 4 * (b \div (header.width \div 4))
        bj == 4 * (b % (header.width \div 4))
    IN  anim[f].pixbuf.rowstride * (bi + (k \div 4)) + 4 * (bj + (k % 4))

\* bits p..p+n-1 of the little-endian number stored in the `len' bytes at
\* offset `off' of frame f's data (n <= 8)
SourceBits(f, off, len, p, n) ==
    LET q  == p \div 8
        lo == SourceByte(f, off + q)
        hi == IF q + 1 < len THEN SourceByte(f, off + q + 1) ELSE 0
    IN  ((lo + 256 * hi) \div Pow2(p % 8)) % Pow2(n)

Rgb565(c) == << Red565(c), Green565(c), Blue565(c) >>

\* x and y mixed with weights wx and wy, rounded: (wx*x + wy*y + (wx+wy)/2) / (wx+wy)
Mix(wx, x, wy, y) == (wx * x + wy * y + ((wx + wy) \div 2)) \div (wx + wy)

Mix3(wx, x, wy, y) ==
    << Mix(wx, x[1], wy, y[1]), Mix(wx, x[2], wy, y[2]), Mix(wx, x[3], wy, y[3]) >>

\* the palette entry ix (0..3) of a DXT1 block as the format defines it
EntryDXT1(c0, c1, ix) ==
    CASE ix = 0 -> Rgb565(c0) \o << 255 >>
      [] ix = 1 -> Rgb565(c1) \o << 255 >>
      [] ix = 2 -> IF c0 > c1 THEN Mix3(4, Rgb565(c0), 2, Rgb565(c1)) \o << 255 >>
                   ELSE Mix3(1, Rgb565(c0), 1, Rgb565(c1)) \o << 255 >>
      [] ix = 3 -> IF c0 > c1 THEN Mix3(2, Rgb565(c0), 4, Rgb565(c1)) \o << 255 >>
                   ELSE << 0, 0, 0, 0 >>

\* C7: in every DXT1 block with endpoints c0, c1: if c0 > c1 all entries have
\* alpha 255 and entries 2 and 3 are (4*c0+2*c1+3)/6 and (2*c0+4*c1+3)/6 per
\* expanded channel; if c0 <= c1 entry 2 is (c0+c1+1)/2 with alpha 255 and
\* entry 3 is transparent black; pixel k of the block (row-major) is the
\* entry indexed by bits 2k..2k+1 of the little-endian 32-bit selector.
C7_DXT1Palette ==
    \A f \in 1..Len(anim) :
        BlockFrame(f, IMAGE_FORMAT_DXT1) =>
            \A b \in BlocksOf(f) : \A k \in 0..15 :
                Rgba(f, TexelAt(f, b, k))
                  = EntryDXT1(SourceLe16(f, 8 * b), SourceLe16(f, 8 * b + 2),
                              SourceBits(f, 8 * b + 4, 4, 2 * k, 2))

\* a DXT1 block with c0 < c1 whose selector picks entry 3 everywhere came out
\* as 16 transparent black pixels
C7_Witness ==
    /\ Len(anim) = 1
    /\ BlockFrame(1, IMAGE_FORMAT_DXT1)
    /\ SourceLe16(1, 0) < SourceLe16(1, 2)
    /\ \A k \in 4..7 : SourceByte(1, k) = 255
    /\ \A k \in 0..15 : Rgba(1, TexelAt(1, 0, k)) = << 0, 0, 0, 0 >>

\* C8: a DXT1 block with c0 = 0xFFFF, c1 = 0x0000 and selector 0 decodes to
\* 16 pixels equal to palette entry 0, which is white with full alpha:
\* R = G = B = 255, A = 255.
C8_WhiteBlock ==
    \A f \in 1..Len(anim) :
        BlockFrame(f, IMAGE_FORMAT_DXT1) =>
            \A b \in BlocksOf(f) :
                ( /\ SourceLe16(f, 8 * b) = 65535
                  /\ SourceLe16(f, 8 * b + 2) = 0
                  /\ \A k \in 4..7 : SourceByte(f, 8 * b + k) = 0 )
                => \A k \in 0..15 : Rgba(f, TexelAt(f, b, k)) = << 255, 255, 255, 255 >>

\* entry ix (0..7) of the alpha palette of a DXT5 block as the format defines it
EntryAlpha(a0, a1, ix) ==
    CASE ix = 0 -> a0
      [] ix = 1 -> a1
      [] a0 > a1 /\ ix >= 2 -> Mix(14 - 2 * (ix - 1), a0, 2 * (ix - 1), a1)
      [] a0 <= a1 /\ ix \in 2..5 -> Mix(10 - 2 * (ix - 1), a0, 2 * (ix - 1), a1)
      [] a0 <= a1 /\ ix = 6 -> 0
      [] a0 <= a1 /\ ix = 7 -> 255

\* entry ix (0..3) of the colour palette of a DXT5 block: no c0 <= c1 mode
EntryDXT5(c0, c1, ix) ==
    CASE ix = 0 -> Rgb565(c0)
      [] ix = 1 -> Rgb565(c1)
      [] ix = 2 -> Mix3(4, Rgb565(c0), 2, Rgb565(c1))
      [] ix = 3 -> Mix3(2, Rgb565(c0), 4, Rgb565(c1))

\* C9: in every DXT5 block the alpha of pixel k is the alpha palette entry
\* indexed by bits 3k..3k+2 of the 48-bit little-endian selector, the palette
\* being a0, a1 and six values (w0*a0+w1*a1+7)/14 when a0 > a1, or four values
\* (..+5)/10 then 0 and 255 when a0 <= a1; the colour always uses the 4/2 and
\* 2/4 weighted entries whatever the order of c0 and c1, and the alpha
\* written first is still there after R, G, B are written.
C9_DXT5Palette ==
    \A f \in 1..Len(anim) :
        BlockFrame(f, IMAGE_FORMAT_DXT5) =>
            \A b \in BlocksOf(f) : \A k \in 0..15 :
                Rgba(f, TexelAt(f, b, k))
                  = EntryDXT5(SourceLe16(f, 16 * b + 8), SourceLe16(f, 16 * b + 10),
                              SourceBits(f, 16 * b + 12, 4, 2 * k, 2))
                    \o << EntryAlpha(SourceByte(f, 16 * b), SourceByte(f, 16 * b + 1),
                                     SourceBits(f, 16 * b + 2, 6, 3 * k, 3)) >>

\* a DXT5 block with a0 = 255, a1 = 0, an all-zero alpha selector and
\* c0 < c1 came out with alpha 255 everywhere
C9_Witness ==
    /\ Len(anim) = 1
    /\ BlockFrame(1, IMAGE_FORMAT_DXT5)
    /\ SourceByte(1, 0) = 255
    /\ SourceByte(1, 1) = 0
    /\ \A k \in 2..7 : SourceByte(1, k) = 0
    /\ SourceLe16(1, 8) < SourceLe16(1, 10)
    /\ \A k \in 0..15 : Rgba(1, TexelAt(1, 0, k))[4] = 255

-----------------------------------------------------------------------------
(* Property of the header parser *)

\* C10: every field the loader uses is read from the sum of the declared
\* widths of the fields before it (no padding beyond the two documented pads
\* around reflectivity), so mipmapCount, and depth of a 7.2 file, are the
\* values at their packed positions.
C10_PackedHeaderOffsets ==
    (pc = "frames" /\ Delivered >= DiskHeaderSize) =>
        /\ header.signature = InputSignature
        /\ header.version[1] = << InputLe16(DiskOffset("version") + 2),
                                  InputLe16(DiskOffset("version")) >>
        /\ header.version[2] = << InputLe16(DiskOffset("version") + 6),
                                  InputLe16(DiskOffset("version") + 4) >>
        /\ header.width = InputLe16(DiskOffset("width"))
        /\ header.height = InputLe16(DiskOffset("height"))
        /\ header.frames = InputLe16(DiskOffset("frames"))
        /\ header.highResImageFormat
             = FormatTag(<< InputLe16(DiskOffset("highResImageFormat") + 2),
                            InputLe16(DiskOffset("highResImageFormat")) >>)
        /\ header.mipmapCount = InputByte(DiskOffset("mipmapCount"))
        /\ ~VersionBelow72(header) => header.depth = InputLe16(DiskOffset("depth"))

-----------------------------------------------------------------------------
(* Property of the accumulation (under SizeSpec) *)

\* the true sum of the sizes of the first n chunks: its low 32 bits and the
\* number of times it passed 2^32
RECURSIVE SumChunks(_, _)
SumChunks(chunks, n) ==
    IF n = 0 THEN [ carry |-> 0, low |-> U32(0) ]
    ELSE LET prev == SumChunks(chunks, n - 1)
             low  == U32Add(prev.low, chunks[n].size)
         IN  [ carry |-> prev.carry + (IF U32Less(low, chunks[n].size) THEN 1 ELSE 0),
               low   |-> low ]

\* 1000000 doubled 0, 1, ... times, as far as a guint holds it
Doublings == { U32Mul(U32(InitialBufferSize), Pow2(k)) : k \in 0..12 }

\* C11: after begin_load and any sequence of load_increment calls, every call
\* has terminated, buffer_data_size is the sum of the chunk sizes and is at
\* most buffer_size, buffer_size is 1000000 doubled some number of times, and
\* chunk k lies in the buffer right after chunks 1..k-1, so the buffer holds
\* the concatenation of the chunks in arrival order.
C11_BufferAccumulates ==
    /\ pc # "hung"
    /\ pc \in { "sizes", "crashed" } =>
          /\ SumChunks(calc.chunks, Len(calc.chunks))
               = [ carry |-> 0, low |-> calc.buffer_data_size ]
          /\ U32LessEq(calc.buffer_data_size, calc.buffer_size)
          /\ calc.buffer_size \in Doublings
          /\ \A k \in 1..Len(calc.chunks) :
                /\ ~calc.chunks[k].before
                /\ SumChunks(calc.chunks, k - 1) = [ carry |-> 0, low |-> calc.chunks[k].at ]

-----------------------------------------------------------------------------
(* Property of the byte ranges the frames are read from (under Spec) *)

\* the parsed header as the layout it announces
HeaderLayout ==
    [ mips |-> header.mipmapCount, frames |-> header.frames, depth |-> header.depth,
      format |-> header.highResImageFormat, width |-> header.width,
      height |-> header.height ]

\* mipSize(0, 1) and mipSize(0, depth) of the parsed header
SliceSize == DiskSliceBytes(header.highResImageFormat, header.width, header.height)

VolumeSize == SliceSize * Max1(header.depth)

\* base + offset(k, 0, 0, 0): the buffer length less the whole region, plus
\* the smaller mips of all frames, plus k volumes of mip 0
FrameStart(k) ==
    (Delivered - DiskRegionBytes(HeaderLayout, 0)) + DiskRegionBytes(HeaderLayout, 1)
    + k * VolumeSize

\* C12: for a supported format with width, height >= 1, the decode of frame i
\* reads exactly the mipSize(0,1) consecutive bytes from base + offset(i,0,0,0),
\* each once and in increasing order; the ranges of the frames start
\* mipSize(0,depth) apart in frame order and are disjoint; and the range of
\* the last frame ends at buffer_data_size when depth is 0 or 1, and not
\* beyond it for a larger depth.
C12_FrameRanges ==
    ( /\ reads # << >>
      /\ header.highResImageFormat \in SupportedFormats
      /\ header.width >= 1
      /\ header.height >= 1 ) =>
        /\ \A f \in 1..Len(reads) :
              /\ Len(reads[f]) = SliceSize
              /\ \A k \in 1..Len(reads[f]) : reads[f][k] = FrameStart(f - 1) + (k - 1)
        /\ \A f \in 1..(Len(reads) - 1) :
              /\ reads[f + 1][1] = reads[f][1] + VolumeSize
              /\ reads[f][Len(reads[f])] < reads[f + 1][1]
        /\ Len(reads) = header.frames =>
              LET last == reads[Len(reads)] IN
              IF header.depth <= 1
              THEN last[Len(last)] + 1 = Delivered
              ELSE last[Len(last)] + 1 <= Delivered

-----------------------------------------------------------------------------
(* Property of the pixel writes of the block decoders (under Spec) *)

\* the parsed header announces a DXT1 or DXT5 picture of whole 4x4 blocks
WholeBlocks ==
    /\ header # NoHeader
    /\ header.highResImageFormat \in { IMAGE_FORMAT_DXT1, IMAGE_FORMAT_DXT5 }
    /\ header.width >= 4
    /\ header.height >= 4
    /\ header.width % 4 = 0
    /\ header.height % 4 = 0

\* row and column of the pixel that byte `idx' of the output belongs to
WriteRow(idx) == idx \div Rowstride(header.width, 4)

WriteCol(idx) == (idx % Rowstride(header.width, 4)) \div 4

\* C13: for DXT1 and DXT5 frames whose width and height are positive
\* multiples of 4, the blocks are visited in raster order, every write goes to
\* a row in [0, height) and a column in [0, width), and every byte (R, G, B,
\* A) of every pixel is written exactly once per frame: none is left
\* unwritten, none is written outside the image.
C13_BlockWritesInBounds ==
    WholeBlocks =>
        \A f \in 1..Len(writes) :
            LET wr     == writes[f]
                total  == 4 * header.width * header.height
                perRow == header.width \div 4
            IN  /\ Len(wr) = total
                /\ \A k \in 1..Len(wr) :
                      /\ wr[k] >= 0
                      /\ WriteRow(wr[k]) < header.height
                      /\ WriteCol(wr[k]) < header.width
                      /\ WriteRow(wr[k]) \div 4 = ((k - 1) \div 64) \div perRow
                      /\ WriteCol(wr[k]) \div 4 = ((k - 1) \div 64) % perRow
                /\ { wr[k] : k \in 1..Len(wr) } = 0..(total - 1)

\* an 8x8 DXT5 frame (two rows of two blocks) has been decoded and no byte of
\* it is left unwritten
C13_Witness ==
    /\ WholeBlocks
    /\ header.highResImageFormat = IMAGE_FORMAT_DXT5
    /\ header.width = 8
    /\ header.height = 8
    /\ Len(anim) = 1
    /\ Len(writes) = 1
    /\ \A idx \in DOMAIN anim[1].pixbuf.pixels : anim[1].pixbuf.pixels[idx] # Unwritten


====
